---- MODULE Spec2Model ----
(***************************************************************************)
(* Website chatbot: crawler, text processor, vector store manager, QA      *)
(* engine and the Streamlit session script, as a state machine.            *)
(*                                                                         *)
(* Python str values are TLA+ strings; TLC evaluates Len, \o and SubSeq on *)
(* them, so every string function below works character by character.      *)
(***************************************************************************)
EXTENDS Integers, Sequences, FiniteSets, TLC

(***************************************************************************)
(* Python str primitives used by the sources                               *)
(***************************************************************************)
ASCII_UPPER == "ABCDEFGHIJKLMNOPQRSTUVWXYZ"

ASCII_LOWER == "abcdefghijklmnopqrstuvwxyz"

DIGITS == "0123456789"

WHITESPACE == " \n\t\r"

Char(s, i) == SubSeq(s, i, i)

Tail_(s) == SubSeq(s, 2, Len(s))

\* the characters of a string, as a set
chars_of(s) == {Char(s, i) : i \in 1..Len(s)}

UPPER == chars_of(ASCII_UPPER)

ALPHA == chars_of(ASCII_UPPER \o ASCII_LOWER)

ALNUM == chars_of(ASCII_UPPER \o ASCII_LOWER \o DIGITS)

SPACE == chars_of(WHITESPACE)

LOWER_OF == [c \in UPPER |->
               Char(ASCII_LOWER, CHOOSE i \in 1..Len(ASCII_UPPER) : Char(ASCII_UPPER, i) = c)]

isalpha(c) == c \in ALPHA

isalnum(c) == c \in ALNUM

isspace(c) == c \in SPACE

\* \w of the re module, on ASCII text
isword(c) == isalnum(c) \/ c = "_"

lower1(c) == IF c \in UPPER THEN LOWER_OF[c] ELSE c

RECURSIVE lower(_)
lower(s) == IF Len(s) = 0 THEN "" ELSE lower1(Char(s, 1)) \o lower(Tail_(s))

\* str.find, 1-based; 0 when sub does not occur (Python's -1)
find(s, sub) ==
    LET hits == {i \in 1..(Len(s) - Len(sub) + 1) : SubSeq(s, i, i + Len(sub) - 1) = sub}
    IN  IF hits = {} THEN 0 ELSE CHOOSE i \in hits : \A j \in hits : i <= j

\* sub in s
contains(s, sub) == Len(sub) = 0 \/ find(s, sub) > 0

startswith(s, p) == Len(p) <= Len(s) /\ SubSeq(s, 1, Len(p)) = p

endswith(s, p) == Len(p) <= Len(s) /\ SubSeq(s, Len(s) - Len(p) + 1, Len(s)) = p

\* s[:n]
prefix(s, n) == SubSeq(s, 1, IF n < Len(s) THEN n ELSE Len(s))

RECURSIVE lstrip(_)
lstrip(s) == IF Len(s) > 0 /\ isspace(Char(s, 1)) THEN lstrip(Tail_(s)) ELSE s

RECURSIVE rstrip(_)
rstrip(s) ==
    IF Len(s) > 0 /\ isspace(Char(s, Len(s))) THEN rstrip(SubSeq(s, 1, Len(s) - 1)) ELSE s

strip(s) == rstrip(lstrip(s))

\* s.split(sep) with a separator
RECURSIVE split(_, _)
split(s, sep) ==
    LET i == find(s, sep)
    IN  IF i = 0 THEN <<s>>
        ELSE <<SubSeq(s, 1, i - 1)>> \o split(SubSeq(s, i + Len(sep), Len(s)), sep)

\* the first whitespace-free word of a string that starts with one
RECURSIVE firstword(_)
firstword(s) ==
    IF Len(s) = 0 \/ isspace(Char(s, 1)) THEN "" ELSE Char(s, 1) \o firstword(Tail_(s))

\* s.split() with no separator: the words between runs of whitespace
RECURSIVE split_ws(_)
split_ws(s) ==
    LET t == lstrip(s)
        w == firstword(t)
    IN  IF Len(t) = 0 THEN <<>>
        ELSE <<w>> \o split_ws(SubSeq(t, Len(w) + 1, Len(t)))

\* sep.join(parts)
RECURSIVE join(_, _)
join(sep, parts) ==
    IF Len(parts) = 0 THEN ""
    ELSE IF Len(parts) = 1 THEN parts[1]
    ELSE parts[1] \o sep \o join(sep, Tail(parts))

\* parts[:n] of a list
take(parts, n) == SubSeq(parts, 1, IF n < Len(parts) THEN n ELSE Len(parts))

\* parts[-n:] of a list
lastn(parts, n) ==
    SubSeq(parts, IF Len(parts) > n THEN Len(parts) - n + 1 ELSE 1, Len(parts))

\* re.sub(r'\s+', ' ', s)
RECURSIVE collapse_ws(_)
collapse_ws(s) ==
    IF Len(s) = 0 THEN ""
    ELSE IF isspace(Char(s, 1)) THEN " " \o collapse_ws(lstrip(s))
    ELSE Char(s, 1) \o collapse_ws(Tail_(s))

\* s with every character of chars removed
RECURSIVE remove_chars(_, _)
remove_chars(s, chars) ==
    IF Len(s) = 0 THEN ""
    ELSE (IF Char(s, 1) \in chars THEN "" ELSE Char(s, 1)) \o remove_chars(Tail_(s), chars)

(***************************************************************************)
(* urllib.parse.urlparse, as far as the sources read its result: the       *)
(* scheme and the netloc, and the ValueError of an unbalanced bracket.     *)
(* A balanced [..] host is taken to hold a valid IP literal.               *)
(***************************************************************************)
SCHEME_CHARS == chars_of(ASCII_LOWER \o ASCII_UPPER \o DIGITS \o "+-.")

UNSAFE_URL_CHARS == chars_of("\t\r\n")

NETLOC_DELIMITERS == chars_of("/?#")

\* the offset of the first of / ? # in s, or Len(s) + 1
netloc_end(s) ==
    LET hits == {i \in 1..Len(s) : Char(s, i) \in NETLOC_DELIMITERS}
    IN  IF hits = {} THEN Len(s) + 1 ELSE CHOOSE i \in hits : \A j \in hits : i <= j

urlparse(url) ==
    LET u == remove_chars(lstrip(url), UNSAFE_URL_CHARS)
        i == find(u, ":")
        has_scheme ==
            /\ i > 1
            /\ isalpha(Char(u, 1))
            /\ \A k \in 1..(i - 1) : Char(u, k) \in SCHEME_CHARS
        scheme == IF has_scheme THEN lower(SubSeq(u, 1, i - 1)) ELSE ""
        rest == IF has_scheme THEN SubSeq(u, i + 1, Len(u)) ELSE u
        after == SubSeq(rest, 3, Len(rest))
        netloc == IF prefix(rest, 2) = "//" THEN SubSeq(after, 1, netloc_end(after) - 1) ELSE ""
    IN  [ValueError |-> contains(netloc, "[") # contains(netloc, "]"),
         scheme |-> scheme,
         netloc |-> netloc]

(***************************************************************************)
(* utils.py and crawler.py: the two URL validators                         *)
(***************************************************************************)
validate_url(url) ==
    LET parsed == urlparse(url)
    IN  IF parsed.ValueError THEN FALSE
        ELSE parsed.netloc # "" /\ parsed.scheme \in {"http", "https"}

\* line 60 with the scheme left unchecked
_is_valid_url_netloc_only(url) ==
    LET parsed == urlparse(url)
    IN  IF parsed.ValueError THEN FALSE ELSE parsed.netloc # ""

_is_valid_url(url) ==
    LET parsed == urlparse(url)
    IN  IF parsed.ValueError THEN FALSE
        ELSE parsed.netloc # "" /\ parsed.scheme # ""

(***************************************************************************)
(* vector_store.py: VectorStoreManager._generate_collection_name           *)
(***************************************************************************)
MAX_NAME_LEN == 50

MIN_NAME_LEN == 3

NAME_CHARS == chars_of(ASCII_LOWER \o ASCII_UPPER \o DIGITS \o ".-")

\* re.sub(r'[^a-zA-Z0-9.-]', '-', domain)
RECURSIVE replace_invalid(_)
replace_invalid(s) ==
    IF Len(s) = 0 THEN ""
    ELSE (IF Char(s, 1) \in NAME_CHARS THEN Char(s, 1) ELSE "-")
         \o replace_invalid(Tail_(s))

\* re.sub(r'^[^a-zA-Z0-9]+', '', domain)
RECURSIVE trim_leading(_)
trim_leading(s) ==
    IF Len(s) > 0 /\ ~isalnum(Char(s, 1)) THEN trim_leading(Tail_(s)) ELSE s

\* re.sub(r'[^a-zA-Z0-9]+$', '', domain)
RECURSIVE trim_trailing(_)
trim_trailing(s) ==
    IF Len(s) > 0 /\ ~isalnum(Char(s, Len(s)))
    THEN trim_trailing(SubSeq(s, 1, Len(s) - 1)) ELSE s

\* lines 157-170 without the cut to 50 characters
collection_name_of_untruncated(netloc) ==
    LET d1 == IF startswith(netloc, "www.") THEN SubSeq(netloc, 5, Len(netloc)) ELSE netloc
        d3 == trim_trailing(trim_leading(replace_invalid(d1)))
    IN  IF Len(d3) < MIN_NAME_LEN
        THEN "site-" \o (IF d3 = "" THEN "default" ELSE d3)
        ELSE d3

\* the name computed from a netloc (lines 157-173)
collection_name_of(netloc) ==
    LET d1 == IF startswith(netloc, "www.") THEN SubSeq(netloc, 5, Len(netloc)) ELSE netloc
        d2 == replace_invalid(d1)
        d3 == trim_trailing(trim_leading(d2))
        d4 == IF Len(d3) < MIN_NAME_LEN
              THEN "site-" \o (IF d3 = "" THEN "default" ELSE d3)
              ELSE d3
    IN  prefix(d4, MAX_NAME_LEN)

\* raised: urlparse's ValueError leaves the function; name: the value returned
_generate_collection_name(source_url) ==
    LET parsed == urlparse(source_url)
    IN  IF parsed.ValueError THEN [raised |-> TRUE, name |-> ""]
        ELSE [raised |-> FALSE, name |-> collection_name_of(parsed.netloc)]

(***************************************************************************)
(* crawler.py: WebsiteCrawler._clean_text                                  *)
(***************************************************************************)
MIN_LINE_CRAWLER == 20

KEPT_PUNCTUATION == chars_of(".,!?-")

\* re.sub(r'[^\w\s.,!?-]', '', text)
RECURSIVE strip_symbols(_)
strip_symbols(s) ==
    IF Len(s) = 0 THEN ""
    ELSE LET c == Char(s, 1)
         IN  (IF isword(c) \/ isspace(c) \/ c \in KEPT_PUNCTUATION THEN c ELSE "")
             \o strip_symbols(Tail_(s))

\* line 148 with the comparison >= in place of >
crawler_keep_at_least(line) == Len(line) >= MIN_LINE_CRAWLER

\* line 148: a stripped line is kept when it is longer than 20 characters
crawler_keep(line) == Len(line) > MIN_LINE_CRAWLER

\* the loop over lines (146-149): the stripped lines that are kept, in order
RECURSIVE crawler_lines(_)
crawler_lines(lines) ==
    IF Len(lines) = 0 THEN <<>>
    ELSE (IF crawler_keep(strip(lines[1])) THEN <<strip(lines[1])>> ELSE <<>>)
         \o crawler_lines(Tail(lines))

crawler_clean_text(text) ==
    LET t1 == collapse_ws(text)
        cleaned_lines == crawler_lines(split(t1, "\n"))
        t2 == join(" ", cleaned_lines)
    IN  strip(strip_symbols(t2))

(***************************************************************************)
(* text_processor.py: TextProcessor                                        *)
(***************************************************************************)
MIN_LINE_PROCESSOR == 10

TERMINAL_PUNCTUATION == chars_of(".!?")

\* the offset of the last newline within the whitespace run that starts s, or 0
RECURSIVE last_newline_in_run(_, _, _)
last_newline_in_run(s, i, best) ==
    IF i > Len(s) \/ ~isspace(Char(s, i)) THEN best
    ELSE last_newline_in_run(s, i + 1, IF Char(s, i) = "\n" THEN i ELSE best)

\* re.sub(r'\n\s*\n', '\n\n', text)
RECURSIVE collapse_blank_lines(_)
collapse_blank_lines(s) ==
    IF Len(s) = 0 THEN ""
    ELSE LET j == IF Char(s, 1) = "\n" THEN last_newline_in_run(s, 2, 0) ELSE 0
         IN  IF j > 0 THEN "\n\n" \o collapse_blank_lines(SubSeq(s, j + 1, Len(s)))
             ELSE Char(s, 1) \o collapse_blank_lines(Tail_(s))

processor_keep(line) ==
    \/ Len(line) >= MIN_LINE_PROCESSOR
    \/ (Len(line) > 0 /\ Char(line, Len(line)) \in TERMINAL_PUNCTUATION)

\* the loop over lines (89-93)
RECURSIVE processor_lines(_)
processor_lines(lines) ==
    IF Len(lines) = 0 THEN <<>>
    ELSE (IF processor_keep(strip(lines[1])) THEN <<strip(lines[1])>> ELSE <<>>)
         \o processor_lines(Tail(lines))

processor_clean_text(text) ==
    IF text = "" THEN ""
    ELSE LET t1 == collapse_ws(strip(text))
             t2 == collapse_blank_lines(t1)
             filtered_lines == processor_lines(split(t2, "\n"))
         IN  strip(join("\n", filtered_lines))

(***************************************************************************)
(* qa_engine.py: QAEngine                                                  *)
(***************************************************************************)
REFUSAL == "The answer is not available on the provided website."

REFUSAL_PHRASE == "the answer is not available on the provided website"

DEFINITIONAL_CUES == {"what is", "what are", "define", "explain"}

QUESTION_WORDS ==
    {"what", "is", "are", "the", "a", "an", "how", "why", "when", "where", "who"}

TOP_KEY_TERMS == 3

MAX_RELEVANT == 2

MAX_MATCHING == 3

\* [sentence.strip() for sentence in sentences]
stripped(sentences) == [i \in 1..Len(sentences) |-> strip(sentences[i])]

\* any(term in sentence.lower() for term in terms)
any_term_in(terms, sentence) ==
    \E k \in 1..Len(terms) : contains(lower(sentence), terms[k])

\* line 153 without the filter on question words and length
key_terms_of_unfiltered(question_lower) == split_ws(question_lower)

\* line 153: the question's words that are no question word and longer than 2
key_terms_of(question_lower) ==
    SelectSeq(split_ws(question_lower), LAMBDA w : w \notin QUESTION_WORDS /\ Len(w) > 2)

\* line 164: the question's words longer than 3
content_words_of(question_lower) ==
    SelectSeq(split_ws(question_lower), LAMBDA w : Len(w) > 3)

_simple_answer(question, context) ==
    LET question_lower == lower(question)
        sentences == split(context, ".")
        definitional == \E cue \in DEFINITIONAL_CUES : contains(question_lower, cue)
        key_terms == key_terms_of(question_lower)
        relevant_sentences ==
            stripped(SelectSeq(sentences,
                LAMBDA s : any_term_in(take(key_terms, TOP_KEY_TERMS), s)))
        content_words == content_words_of(question_lower)
        matching_sentences ==
            stripped(SelectSeq(sentences, LAMBDA s : any_term_in(content_words, s)))
    IN  IF definitional /\ Len(relevant_sentences) > 0
        THEN join(". ", take(relevant_sentences, MAX_RELEVANT)) \o "."
        ELSE IF Len(content_words) > 0 /\ Len(matching_sentences) > 0
        THEN join(". ", take(matching_sentences, MAX_MATCHING)) \o "."
        ELSE REFUSAL

HISTORY_WINDOW == 6

SYSTEM_MESSAGE ==
    "You are a helpful assistant that answers questions based ONLY on the provided website content.\nIf the answer to a question is not available in the provided context, respond EXACTLY with:\n\"The answer is not available on the provided website.\"\n\nDo not use any external knowledge or make assumptions. Base your answer strictly on the information provided in the context."

\* a chat_history entry that is no dict: msg.get raises AttributeError
NotADict == [notadict |-> TRUE]

is_dict(msg) == "notadict" \notin DOMAIN msg

\* msg.get(key, default)
get(msg, key, default) == IF key \in DOMAIN msg THEN msg[key] ELSE default

\* lines 44-52 with the loop over the whole history instead of its last 6 entries
history_messages_whole(chat_history) ==
    LET turns == SelectSeq(chat_history,
                           LAMBDA msg : get(msg, "role", "user") \in {"user", "assistant"})
    IN  [i \in 1..Len(turns) |->
            [role |-> get(turns[i], "role", "user"), content |-> get(turns[i], "content", "")]]

\* lines 44-52: the user and assistant turns among the last 6 entries
history_messages(chat_history) ==
    LET window == lastn(chat_history, HISTORY_WINDOW)
        turns == SelectSeq(window, LAMBDA msg : get(msg, "role", "user") \in {"user", "assistant"})
    IN  [i \in 1..Len(turns) |->
            [role |-> get(turns[i], "role", "user"), content |-> get(turns[i], "content", "")]]

\* lines 44-62
build_messages(question, context, chat_history) ==
    <<[role |-> "system", content |-> SYSTEM_MESSAGE]>>
    \o history_messages(chat_history)
    \o <<[role |-> "user",
          content |-> "Context from the website:\n" \o context \o "\n\nQuestion: " \o question]>>

\* lines 91-93 alone: the check without the test for the refusal phrase
post_check_prefix_only(answer) ==
    IF \/ answer = ""
       \/ startswith(lower(answer), "i don't know")
       \/ startswith(lower(answer), "i'm sorry")
    THEN REFUSAL
    ELSE answer

\* lines 91-99: the check of the answer before it is returned
post_check(answer) ==
    IF \/ answer = ""
       \/ startswith(lower(answer), "i don't know")
       \/ startswith(lower(answer), "i'm sorry")
    THEN REFUSAL
    ELSE IF contains(lower(answer), REFUSAL_PHRASE) THEN REFUSAL
    ELSE answer

\* What one run of the try block (33-99) did. raised: an exception left it;
\* value: what it returned; api_called, fallback_called: requests.post and
\* _simple_answer were executed; source and answer: where the answer came from
\* and what it was before the final check; messages: the list built for the model.
Outcome(raised, value, api_called, fallback_called, source, answer, messages) ==
    [raised |-> raised, value |-> value, api_called |-> api_called,
     fallback_called |-> fallback_called, source |-> source, answer |-> answer,
     messages |-> messages]

\* lines 64-99 with the final check left out for the fallback's answer
compose_check_api_only(question, context, chat_history, use_groq, api) ==
    LET from_api == use_groq /\ api.kind = "ok"
        answer == IF from_api THEN strip(api.content)
                  ELSE _simple_answer(question, context)
    IN  Outcome(FALSE, IF from_api THEN post_check(answer) ELSE answer, use_groq, ~from_api,
                IF from_api THEN "api" ELSE "fallback", answer,
                build_messages(question, context, chat_history))

\* lines 64-99 with a failed request answered by the refusal string instead of
\* by the fallback
compose_api_failure_refuses(question, context, chat_history, use_groq, api) ==
    LET from_api == use_groq /\ api.kind = "ok"
        failed == use_groq /\ api.kind # "ok"
        answer == IF from_api THEN strip(api.content)
                  ELSE IF failed THEN REFUSAL
                  ELSE _simple_answer(question, context)
    IN  Outcome(FALSE, post_check(answer), use_groq, ~from_api /\ ~failed,
                IF from_api THEN "api" ELSE "fallback", answer,
                build_messages(question, context, chat_history))

\* api: what the chat-completion request does ([kind, content]) with
\* kind "ok" (status 200, content read), "status" (another status),
\* "transport" (requests.post raises) or "badjson" (the body has no content string).
\* Lines 43-99: the messages, the answer of the API or of the fallback, the final check.
compose(question, context, chat_history, use_groq, api) ==
    LET from_api == use_groq /\ api.kind = "ok"
        answer == IF from_api THEN strip(api.content)
                  ELSE _simple_answer(question, context)
    IN  Outcome(FALSE, post_check(answer), use_groq, ~from_api,
                IF from_api THEN "api" ELSE "fallback", answer,
                build_messages(question, context, chat_history))

\* msg.get raises on an entry of the last 6 that is no dict (lines 46-48)
history_raises(chat_history) ==
    \E i \in DOMAIN lastn(chat_history, HISTORY_WINDOW) :
        ~is_dict(lastn(chat_history, HISTORY_WINDOW)[i])

\* the try block without the return on an empty search result
ask_question_try_no_empty_check(question, chat_history, use_groq, search, api) ==
    IF search.raises \/ history_raises(chat_history)
    THEN Outcome(TRUE, "", FALSE, FALSE, "none", "", <<>>)
    ELSE compose(question, join("\n\n", search.docs), chat_history, use_groq, api)

\* search: what vector_store.similarity_search does ([raises, docs]).
\* Lines 33-99, the try block.
ask_question_try(question, chat_history, use_groq, search, api) ==
    IF search.raises THEN Outcome(TRUE, "", FALSE, FALSE, "none", "", <<>>)
    ELSE IF Len(search.docs) = 0
    THEN Outcome(FALSE, REFUSAL, FALSE, FALSE, "none", "", <<>>)
    ELSE IF history_raises(chat_history)
    THEN Outcome(TRUE, "", FALSE, FALSE, "none", "", <<>>)
    ELSE compose(question, join("\n\n", search.docs), chat_history, use_groq, api)

\* ask_question without its except clause
ask_question_propagating(question, chat_history, use_groq, search, api) ==
    ask_question_try(question, chat_history, use_groq, search, api)

\* lines 22-103: the try block and its except Exception clause
ask_question(question, chat_history, use_groq, search, api) ==
    LET r == ask_question_try(question, chat_history, use_groq, search, api)
    IN  IF r.raised THEN [r EXCEPT !.raised = FALSE, !.value = REFUSAL] ELSE r

(***************************************************************************)
(* text_processor.py: TextProcessor.process_and_chunk                      *)
(***************************************************************************)
\* Python's None
None == [is_none |-> TRUE]

\* RecursiveCharacterTextSplitter.split_text is library code: how many chunks
\* it cuts is the environment's choice n; the chunks are n consecutive pieces.
split_text(text, n) ==
    [i \in 1..n |-> SubSeq(text, ((i - 1) * Len(text)) \div n + 1, (i * Len(text)) \div n)]

\* lines 55-65 with the index counted from 1
documents_of_one_based(chunks, content_data, source_url) ==
    [i \in 1..Len(chunks) |->
        [page_content |-> strip(chunks[i]),
         metadata |-> [source_url |-> source_url,
                       page_title |-> get(content_data, "title", "Untitled Page"),
                       chunk_index |-> i,
                       total_chunks |-> Len(chunks)]]]

\* lines 55-65: one Document per chunk
documents_of(chunks, content_data, source_url) ==
    [i \in 1..Len(chunks) |->
        [page_content |-> strip(chunks[i]),
         metadata |-> [source_url |-> source_url,
                       page_title |-> get(content_data, "title", "Untitled Page"),
                       chunk_index |-> i - 1,
                       total_chunks |-> Len(chunks)]]]

process_and_chunk(content_data, source_url, n) ==
    IF content_data = None \/ "content" \notin DOMAIN content_data THEN <<>>
    ELSE LET cleaned_text == processor_clean_text(content_data.content)
         IN  IF strip(cleaned_text) = "" THEN <<>>
             ELSE documents_of(split_text(cleaned_text, n), content_data, source_url)

(***************************************************************************)
(* crawler.py: WebsiteCrawler.crawl                                        *)
(***************************************************************************)
\* fetch: what the GET and the DOM extraction give ([ok, title, text]): the
\* request's success, the page title and the text of the main content or body
crawl(url, fetch) ==
    IF ~_is_valid_url(url)
    THEN [raised |-> TRUE, error |-> "Error crawling website: Invalid URL format", value |-> None]
    ELSE IF ~fetch.ok
    THEN [raised |-> TRUE, error |-> "Failed to fetch URL: request failed", value |-> None]
    ELSE LET content == crawler_clean_text(fetch.text)
         IN  IF strip(content) = ""
             THEN [raised |-> FALSE, error |-> "", value |-> None]
             ELSE [raised |-> FALSE, error |-> "",
                   value |-> [title |-> fetch.title, content |-> content, url |-> url]]

(***************************************************************************)
(* vector_store.py: VectorStoreManager.create_store                        *)
(***************************************************************************)
\* build: what Chroma.from_documents does: "ok", "fail_early" (it raises before
\* the collection exists) or "fail_late" (it raises after get-or-create, while
\* embedding or adding). created: the collection exists afterwards; added: the
\* documents were added to it.
create_store(documents, build) ==
    IF Len(documents) = 0
    THEN [raised |-> TRUE, error |-> "No documents provided for vector store creation",
          collection_name |-> "", created |-> FALSE, added |-> FALSE]
    ELSE LET generated == _generate_collection_name(documents[1].metadata.source_url)
         IN  IF generated.raised
             THEN [raised |-> TRUE, error |-> "Invalid IPv6 URL",
                   collection_name |-> "", created |-> FALSE, added |-> FALSE]
             ELSE [raised |-> build # "ok",
                   error |-> IF build = "ok" THEN "" ELSE "vector store build failed",
                   collection_name |-> generated.name,
                   created |-> build # "fail_early",
                   added |-> build = "ok"]

(***************************************************************************)
(* app.py: the Streamlit session                                           *)
(***************************************************************************)
VARIABLES
    vector_store,   \* st.session_state.vector_store: None or a Chroma handle
    chat_history,   \* st.session_state.chat_history
    url_indexed,    \* st.session_state.url_indexed
    collections,    \* the persisted Chroma collections: name -> page contents
    GROQ_API_KEY,   \* the environment variable QAEngine reads
    last,           \* what the last handler run did
    call            \* a function applied on its own: its inputs and its result

vars == <<vector_store, chat_history, url_indexed, collections, GROQ_API_KEY, last, call>>

session == <<vector_store, chat_history, url_indexed, collections, GROQ_API_KEY, last>>

\* bounds of the model
MaxChunks == 2

MaxDocs == 2

MaxHistory == 4

K == 5

\* the inputs of a session
SessionUrls == {"", "example.com", "https://a.com/docs", "http://www.b.org"}

PAGE_ABC == "A is B. C is D. E is F."

PAGE_BLANK == "   "

PAGE_MENU == "Home About Contact"

PAGE_SYMBOLS == "@@@@@@@@@@@@@@@@@@@@ab"

Fetches ==
    {[ok |-> FALSE, title |-> "", text |-> ""]}
    \cup {[ok |-> TRUE, title |-> "Page", text |-> t] :
            t \in {PAGE_ABC, PAGE_BLANK, PAGE_MENU, PAGE_SYMBOLS}}

Builds == {"ok", "fail_early", "fail_late"}

Prompts == {"what is a", "where is F"}

ApiContents == {"A is B.", "I don't know."}

NoApi == [kind |-> "unused", content |-> ""]

ApiOutcomes ==
    {[kind |-> "ok", content |-> c] : c \in ApiContents}
    \cup {[kind |-> k, content |-> ""] : k \in {"status", "transport", "badjson"}}

\* the requests the engine can see: none is made without a key
ApiFor(use_groq) == IF use_groq THEN ApiOutcomes ELSE {NoApi}

\* similarity_search(question, k): the k nearest documents; which documents are
\* nearest, and in which order, is the embedding's matter
Rankings(docs, k) ==
    LET n == Len(docs)
        m == IF n < k THEN n ELSE k
    IN  {[i \in 1..m |-> docs[f[i]]] :
            f \in {g \in [1..m -> 1..n] : \A a, b \in 1..m : a # b => g[a] # g[b]}}

\* what the search on the session's store can do: raise, or rank the
\* documents of the store's collection (none if the collection is gone)
SearchOutcomes ==
    {[raises |-> TRUE, docs |-> <<>>]}
    \cup (IF vector_store = None THEN {}
          ELSE {[raises |-> FALSE, docs |-> d] :
                  d \in Rankings(IF vector_store.collection_name \in DOMAIN collections
                                 THEN collections[vector_store.collection_name]
                                 ELSE <<>>, K)})

Idle == [fn |-> "none"]

Init ==
    /\ vector_store = None
    /\ chat_history = <<>>
    /\ url_indexed = FALSE
    /\ collections = <<>>
    /\ GROQ_API_KEY \in {"", "gsk_key"}
    /\ last = [op |-> "init"]
    /\ call = Idle

\* [doc.page_content for doc in documents]
page_contents(documents) == [i \in 1..Len(documents) |-> documents[i].page_content]

\* the collections after create_store ran
collections_after(store, documents) ==
    LET name == store.collection_name
        old == IF name \in DOMAIN collections THEN collections[name] ELSE <<>>
        new == IF store.added THEN old \o page_contents(documents) ELSE old
    IN  IF ~store.created THEN collections
        ELSE [c \in DOMAIN collections \cup {name} |->
                IF c = name THEN new ELSE collections[c]]

\* What one run of the "Index Website" handler did. stage: where it ended;
\* error: the st.error text; create_store_called; commit: lines 51 and 53 ran.
Handled(url, stage, error, called, commit, chunks, store) ==
    [op |-> "index", url |-> url, stage |-> stage, error |-> error,
     create_store_called |-> called, commit |-> commit, chunks |-> chunks, store |-> store]

\* lines 27-57 with the session state assigned before create_store's outcome is known
index_website_commit_first(url, fetch, n, build) ==
    LET crawled == crawl(url, fetch)
        chunks == process_and_chunk(crawled.value, url, n)
        store == create_store(chunks, build)
    IN  IF url = "" THEN Handled(url, "empty_url", "Please enter a valid URL", FALSE, FALSE, chunks, store)
        ELSE IF crawled.raised
        THEN Handled(url, "crawl_error", "Error indexing website: " \o crawled.error,
                     FALSE, FALSE, chunks, store)
        ELSE IF crawled.value = None
        THEN Handled(url, "no_content", "No content could be extracted from the website",
                     FALSE, FALSE, chunks, store)
        ELSE IF Len(chunks) = 0
        THEN Handled(url, "no_chunks", "No meaningful content chunks could be created",
                     FALSE, FALSE, chunks, store)
        ELSE IF store.raised
        THEN Handled(url, "build_error", "Error indexing website: " \o store.error,
                     TRUE, TRUE, chunks, store)
        ELSE Handled(url, "ok", "", TRUE, TRUE, chunks, store)

\* lines 27-57: one click on "Index Website"
index_website(url, fetch, n, build) ==
    LET crawled == crawl(url, fetch)
        chunks == process_and_chunk(crawled.value, url, n)
        store == create_store(chunks, build)
    IN  IF url = "" THEN Handled(url, "empty_url", "Please enter a valid URL", FALSE, FALSE, chunks, store)
        ELSE IF crawled.raised
        THEN Handled(url, "crawl_error", "Error indexing website: " \o crawled.error,
                     FALSE, FALSE, chunks, store)
        ELSE IF crawled.value = None
        THEN Handled(url, "no_content", "No content could be extracted from the website",
                     FALSE, FALSE, chunks, store)
        ELSE IF Len(chunks) = 0
        THEN Handled(url, "no_chunks", "No meaningful content chunks could be created",
                     FALSE, FALSE, chunks, store)
        ELSE IF store.raised
        THEN Handled(url, "build_error", "Error indexing website: " \o store.error,
                     TRUE, FALSE, chunks, store)
        ELSE Handled(url, "ok", "", TRUE, TRUE, chunks, store)

\* lines 27-57 with url_indexed set before create_store is called (line 53 ahead of line 51)
IndexWebsite_flag_first ==
    \E url \in SessionUrls, fetch \in Fetches, n \in 1..MaxChunks, build \in Builds :
      \E r \in {index_website(url, fetch, n, build)} :
        \E after \in {IF r.create_store_called
                      THEN collections_after(r.store, r.chunks) ELSE collections} :
            /\ \A c \in DOMAIN after : Len(after[c]) <= MaxDocs
            /\ collections' = after
            /\ vector_store' = IF r.commit
                               THEN [collection_name |-> r.store.collection_name]
                               ELSE vector_store
            /\ url_indexed' = IF r.create_store_called THEN TRUE ELSE url_indexed
            /\ last' = [op |-> "index", url |-> url, stage |-> r.stage, error |-> r.error,
                        create_store_called |-> r.create_store_called]
            /\ UNCHANGED <<chat_history, GROQ_API_KEY, call>>

IndexWebsite ==
    \E url \in SessionUrls, fetch \in Fetches, n \in 1..MaxChunks, build \in Builds :
      \E r \in {index_website(url, fetch, n, build)} :
        \E after \in {IF r.create_store_called
                      THEN collections_after(r.store, r.chunks) ELSE collections} :
            /\ \A c \in DOMAIN after : Len(after[c]) <= MaxDocs
            /\ collections' = after
            /\ vector_store' = IF r.commit
                               THEN [collection_name |-> r.store.collection_name]
                               ELSE vector_store
            /\ url_indexed' = IF r.commit THEN TRUE ELSE url_indexed
            /\ last' = [op |-> "index", url |-> url, stage |-> r.stage, error |-> r.error,
                        create_store_called |-> r.create_store_called]
            /\ UNCHANGED <<chat_history, GROQ_API_KEY, call>>

\* lines 70 and 83 with the history assigned anew instead of appended to
AskQuestion_overwrite ==
    /\ url_indexed
    /\ Len(chat_history) + 2 <= MaxHistory
    /\ \E prompt \in Prompts, search \in SearchOutcomes, api \in ApiFor(GROQ_API_KEY # "") :
        \E asked \in {Append(chat_history, [role |-> "user", content |-> prompt])} :
          \E r \in {ask_question(prompt, asked, GROQ_API_KEY # "", search, api)} :
            /\ chat_history' = <<[role |-> "user", content |-> prompt],
                                 [role |-> "assistant", content |-> r.value]>>
            /\ last' = [op |-> "ask", prompt |-> prompt, raised |-> r.raised,
                        found |-> Len(search.docs), api_called |-> r.api_called,
                        fallback_called |-> r.fallback_called, source |-> r.source]
    /\ UNCHANGED <<vector_store, url_indexed, collections, GROQ_API_KEY, call>>

\* lines 60-89 without the append of the user's turn (line 71)
AskQuestion_answer_only ==
    /\ url_indexed
    /\ Len(chat_history) + 2 <= MaxHistory
    /\ \E prompt \in Prompts, search \in SearchOutcomes, api \in ApiFor(GROQ_API_KEY # "") :
        \E r \in {ask_question(prompt, chat_history, GROQ_API_KEY # "", search, api)} :
            /\ chat_history' =
                  Append(chat_history,
                         [role |-> "assistant",
                          content |-> IF r.raised
                                      THEN "Error generating response: " \o r.value
                                      ELSE r.value])
            /\ last' = [op |-> "ask", prompt |-> prompt, raised |-> r.raised,
                        found |-> Len(search.docs), api_called |-> r.api_called,
                        fallback_called |-> r.fallback_called, source |-> r.source]
    /\ UNCHANGED <<vector_store, url_indexed, collections, GROQ_API_KEY, call>>

\* lines 60-89: one question typed into the chat input
AskQuestion ==
    /\ url_indexed
    /\ Len(chat_history) + 2 <= MaxHistory
    /\ \E prompt \in Prompts, search \in SearchOutcomes, api \in ApiFor(GROQ_API_KEY # "") :
        \E asked \in {Append(chat_history, [role |-> "user", content |-> prompt])} :
          \E r \in {ask_question(prompt, asked, GROQ_API_KEY # "", search, api)} :
            /\ chat_history' =
                  Append(asked,
                         [role |-> "assistant",
                          content |-> IF r.raised
                                      THEN "Error generating response: " \o r.value
                                      ELSE r.value])
            /\ last' = [op |-> "ask", prompt |-> prompt, raised |-> r.raised,
                        found |-> Len(search.docs), api_called |-> r.api_called,
                        fallback_called |-> r.fallback_called, source |-> r.source]
    /\ UNCHANGED <<vector_store, url_indexed, collections, GROQ_API_KEY, call>>

\* lines 92-95: the "Clear Chat History" button, shown while there is history
ClearChat ==
    /\ chat_history # <<>>
    /\ chat_history' = <<>>
    /\ last' = [op |-> "clear"]
    /\ UNCHANGED <<vector_store, url_indexed, collections, GROQ_API_KEY, call>>

\* vector_store.py 175-183: the maintenance call that deletes every collection
ClearAllStores ==
    /\ collections # <<>>
    /\ collections' = <<>>
    /\ last' = [op |-> "clear_all_stores"]
    /\ UNCHANGED <<vector_store, chat_history, url_indexed, GROQ_API_KEY, call>>

Next == IndexWebsite \/ AskQuestion \/ ClearChat \/ ClearAllStores

Spec == Init /\ [][Next]_vars

(***************************************************************************)
(* The functions applied on their own: Init draws the arguments, the one   *)
(* action applies the function and records its result in call.            *)
(***************************************************************************)
SessionInit ==
    /\ vector_store = None
    /\ chat_history = <<>>
    /\ url_indexed = FALSE
    /\ collections = <<>>
    /\ GROQ_API_KEY = ""
    /\ last = [op |-> "init"]

\* ---- URLs: validate_url, _is_valid_url, _generate_collection_name ----
UrlSchemes == {"", "http", "https", "ftp", "Https", "1x", "a+b"}

UrlSeparators == {"://", ":", "//", ""}

LONG_HOST == "aaaaaaaaaaaaaaaaaaaaaaaaaaaaaaaaaaaaaaaaaaaaaaaaaa.example.com"

LONG_HOST_DASH == "bbbbbbbbbbbbbbbbbbbbbbbbbbbbbbbbbbbbbbbbbbbbbbbbb-c.example.com"

UrlHosts ==
    {"", "example.com", "www.example.com", "www.a", "a", "ab", "www.",
     "user:pw@host.com:8080", "EX_ample.com.", "-.-", "[::1]", "[bad",
     LONG_HOST, LONG_HOST_DASH}

UrlPaths == {"", "/p?q=1#f"}

Urls ==
    {scheme \o sep \o host \o path :
        scheme \in UrlSchemes, sep \in UrlSeparators, host \in UrlHosts, path \in UrlPaths}

InitURL ==
    /\ SessionInit
    /\ call \in {[fn |-> "url", url |-> u, done |-> FALSE] : u \in Urls}

CallUrlFunctions ==
    /\ call.fn = "url"
    /\ ~call.done
    /\ call' = [fn |-> "url", url |-> call.url, done |-> TRUE,
                validate_url |-> validate_url(call.url),
                is_valid_url |-> _is_valid_url(call.url),
                collection_name |-> _generate_collection_name(call.url)]
    /\ UNCHANGED session

NextURL == CallUrlFunctions

SpecURL == InitURL /\ [][NextURL]_vars

\* ---- QAEngine.ask_question ----
DOC_ABC == "A is B. C is D. E is F."

DOC_SORRY == "I'm sorry to say that pricing is not public. Pricing is custom."

DOC_PHRASE ==
    "Support says: the answer is not available on the provided website. Contact support for pricing."

DOC_PYTHON ==
    "Python is a programming language. It was created by Guido. Python supports modules. Guido likes Python."

Questions ==
    {"what is a", "explain pricing", "where is support", "What is Python?", "hi"}

User(content) == [role |-> "user", content |-> content]

Assistant(content) == [role |-> "assistant", content |-> content]

EIGHT_TURNS ==
    <<User("q1"), Assistant("a1"), User("q2"), Assistant("a2"),
      User("q3"), Assistant("a3"), User("q4"), Assistant("a4")>>

Histories ==
    {<<>>,
     <<User("q1")>>,
     <<User("q1"), Assistant("a1"), [role |-> "system", content |-> "s"],
       [content |-> "no role"], User("q2")>>,
     EIGHT_TURNS,
     <<NotADict, User("q1")>>,
     <<NotADict>> \o SubSeq(EIGHT_TURNS, 1, HISTORY_WINDOW)}

Searches ==
    {[raises |-> TRUE, docs |-> <<>>]}
    \cup {[raises |-> FALSE, docs |-> d] :
            d \in {<<>>, <<DOC_ABC>>, <<DOC_SORRY>>, <<DOC_PHRASE>>, <<DOC_PYTHON, DOC_ABC>>}}

ApiAnswers ==
    {"", "  ", "I don't know.", "I'm Sorry, no.", REFUSAL,
     "Well: THE ANSWER IS NOT AVAILABLE ON THE PROVIDED WEBSITE!", " A is B. \n"}

Apis ==
    {[kind |-> "ok", content |-> c] : c \in ApiAnswers}
    \cup {[kind |-> k, content |-> ""] : k \in {"status", "transport", "badjson"}}

InitQA ==
    /\ SessionInit
    /\ call \in {[fn |-> "ask_question", question |-> q, chat_history |-> h,
                  use_groq |-> u, search |-> s, api |-> a, done |-> FALSE] :
                    q \in Questions, h \in Histories, s \in Searches,
                    u \in BOOLEAN, a \in Apis \cup {NoApi}}
    /\ call.use_groq <=> call.api # NoApi

CallAskQuestion ==
    /\ call.fn = "ask_question"
    /\ ~call.done
    /\ call' = [call EXCEPT !.done = TRUE] @@
               [result |-> ask_question(call.question, call.chat_history,
                                        call.use_groq, call.search, call.api)]
    /\ UNCHANGED session

NextQA == CallAskQuestion

SpecQA == InitQA /\ [][NextQA]_vars

\* ---- TextProcessor.process_and_chunk ----
Contents ==
    {"", "   ", "short", "Done.", PAGE_ABC, "menu\nPython is a language.\n\n\nIt is free.",
     "First paragraph of the page.\n\nSecond paragraph, a bit longer!"}

ContentData ==
    {None, [title |-> "Page", url |-> "https://a.com/docs"]}
    \cup {[title |-> t, content |-> c, url |-> "https://a.com/docs"] :
            t \in {"Page", ""}, c \in Contents}
    \cup {[content |-> c, url |-> "https://a.com/docs"] : c \in Contents}

InitChunk ==
    /\ SessionInit
    /\ call \in {[fn |-> "process_and_chunk", content_data |-> d, source_url |-> u,
                  done |-> FALSE] :
                    d \in ContentData, u \in {"https://a.com/docs", "http://www.b.org"}}

CallProcessAndChunk ==
    /\ call.fn = "process_and_chunk"
    /\ ~call.done
    /\ \E n \in 1..MaxChunks :
         call' = [call EXCEPT !.done = TRUE] @@
                 [result |-> process_and_chunk(call.content_data, call.source_url, n)]
    /\ UNCHANGED session

NextChunk == CallProcessAndChunk

SpecChunk == InitChunk /\ [][NextChunk]_vars

\* ---- WebsiteCrawler._clean_text and the empty-content test of crawl ----
CLEAN_LETTERS == "abcdefghijklmnopqrstuvwx"

CleanPads == {"", " ", "\n", " \t\n "}

\* one word of every length up to the letters', padded on either side; texts
\* of several lines; texts of symbols the last substitution removes
CleanTexts ==
    {l \o SubSeq(CLEAN_LETTERS, 1, n) \o r :
        l \in CleanPads, r \in CleanPads, n \in 0..Len(CLEAN_LETTERS)}
    \cup {"short one\nshort two", "short one\n\n\nshort   two.", "Home\nabcdefghijklmnopqrstu",
          "ten chars.\nten chars.", "ten chars\nten chars.", PAGE_MENU, PAGE_SYMBOLS,
          "@@@@@@@@@@@@@@@@@@@@@", "twenty characters ok", "twenty-one characters"}

InitClean ==
    /\ SessionInit
    /\ call \in {[fn |-> "clean_text", text |-> x, done |-> FALSE] : x \in CleanTexts}

\* _clean_text(text) with what its loop saw and kept, and crawl on a page
\* whose extracted text is text
CallCleanText ==
    /\ call.fn = "clean_text"
    /\ ~call.done
    /\ call' = [fn |-> "clean_text", text |-> call.text, done |-> TRUE,
                lines |-> split(collapse_ws(call.text), "\n"),
                cleaned_lines |-> crawler_lines(split(collapse_ws(call.text), "\n")),
                result |-> crawler_clean_text(call.text),
                crawled |-> crawl("https://a.com/docs",
                                  [ok |-> TRUE, title |-> "Page", text |-> call.text])]
    /\ UNCHANGED session

NextClean == CallCleanText

SpecClean == InitClean /\ [][NextClean]_vars

\* ---- QAEngine._simple_answer ----
DOC_WHAT == "What a day. Nothing else. Somewhat nice. Whatever. So what."

DOC_HOURS == "Opening hours are 9-5. Today is Monday. Hours vary. Closed."

FallbackQuestions ==
    {"what is python", "What is Python?", "what is a", "explain pricing",
     "Define the API key", "what are the opening hours today",
     "explain alpha beta gamma delta", "where is support", "hi", ""}

FallbackContexts ==
    {"", DOC_ABC, DOC_WHAT, DOC_HOURS, DOC_SORRY,
     "Python is a language. It is free. Use Python. PYTHON has modules.",
     "Gamma rays. Delta wings. No period here", "The API needs a key.\n\nPricing is custom."}

InitFallback ==
    /\ SessionInit
    /\ call \in {[fn |-> "_simple_answer", question |-> q, context |-> c, done |-> FALSE] :
                    q \in FallbackQuestions, c \in FallbackContexts}

CallSimpleAnswer ==
    /\ call.fn = "_simple_answer"
    /\ ~call.done
    /\ call' = [call EXCEPT !.done = TRUE] @@
               [result |-> _simple_answer(call.question, call.context)]
    /\ UNCHANGED session

NextFallback == CallSimpleAnswer

SpecFallback == InitFallback /\ [][NextFallback]_vars

(***************************************************************************)
(* Properties                                                              *)
(***************************************************************************)
AskDone == call.fn = "ask_question" /\ call.done

UrlDone == call.fn = "url" /\ call.done

ChunkDone == call.fn = "process_and_chunk" /\ call.done

\* C1 (SpecQA): whenever the similarity search returns zero documents,
\* ask_question returns exactly the refusal string, and neither the
\* chat-completion request nor _simple_answer is executed, with or without a key.
C1_EmptySearchRefuses ==
    (AskDone /\ ~call.search.raises /\ call.search.docs = <<>>)
        => /\ ~call.result.raised
           /\ call.result.value = REFUSAL
           /\ ~call.result.api_called
           /\ ~call.result.fallback_called

C1_Witness ==
    AskDone /\ ~call.search.raises /\ call.search.docs = <<>> /\ call.use_groq

\* C2 (SpecQA): ask_question never lets an exception reach its caller: it
\* always returns a string, and when the search raised or the history could
\* not be read, that string is exactly the refusal string.
C2_NeverRaises ==
    AskDone
        => /\ ~call.result.raised
           /\ call.result.value \in STRING
           /\ (call.search.raises
               \/ (call.search.docs # <<>>
                   /\ \E i \in DOMAIN lastn(call.chat_history, HISTORY_WINDOW) :
                        lastn(call.chat_history, HISTORY_WINDOW)[i] = NotADict))
              => call.result.value = REFUSAL

C2_Witness ==
    AskDone /\ call.search.raises /\ call.use_groq /\ call.result.value = REFUSAL

\* C3 (Spec): an "Index Website" run that ends anywhere but in success leaves
\* the session's vector_store and url_indexed as they were; unless
\* create_store was called the collections are as they were too, and for a
\* page without content create_store is not called.
C3_FailedIndexCommitsNothing ==
    [][(last'.op = "index" /\ last'.stage # "ok")
        => /\ vector_store' = vector_store
           /\ url_indexed' = url_indexed
           /\ (~last'.create_store_called => collections' = collections)
           /\ (last'.stage \in {"empty_url", "crawl_error", "no_content", "no_chunks"}
                 => ~last'.create_store_called)]_vars

C3_Witness ==
    /\ last.op = "index"
    /\ last.stage = "build_error"
    /\ url_indexed
    /\ vector_store # None
    /\ vector_store.collection_name # _generate_collection_name(last.url).name

\* C4 as stated (SpecQA): for the context "A is B. C is D. E is F." and the
\* question "what is a" the fallback returns "A is B.", not the refusal string.
C4_Original ==
    (AskDone /\ call.question = "what is a" /\ call.search.docs = <<DOC_ABC>>
        /\ call.result.source = "fallback")
        => call.result.answer = "A is B."

\* C4 as amended (SpecQA): for that context and question _simple_answer
\* returns the refusal string: "a" is a question word, and "what", the only
\* word longer than 3, is in no sentence.
C4_FallbackRefuses ==
    (AskDone /\ call.question = "what is a" /\ call.search.docs = <<DOC_ABC>>
        /\ call.result.source = "fallback")
        => call.result.answer = REFUSAL

C4_Witness ==
    /\ AskDone /\ call.question = "what is a" /\ call.search.docs = <<DOC_ABC>>
    /\ call.result.source = "fallback" /\ call.result.fallback_called

\* C5 (SpecQA): a value ask_question returns either does not contain the
\* refusal phrase, whatever the case of its letters, or is exactly the
\* refusal string.
C5_PhraseNormalized ==
    AskDone
        => \/ ~contains(lower(call.result.value), REFUSAL_PHRASE)
           \/ call.result.value = REFUSAL

C5_Witness ==
    /\ AskDone
    /\ call.result.answer # REFUSAL
    /\ contains(lower(call.result.answer), REFUSAL_PHRASE)
    /\ ~startswith(lower(call.result.answer), "i'm sorry")
    /\ call.result.value = REFUSAL

\* the answers the final check rewrites
Rewritten(answer) ==
    \/ answer = ""
    \/ startswith(lower(answer), "i don't know")
    \/ startswith(lower(answer), "i'm sorry")
    \/ contains(lower(answer), REFUSAL_PHRASE)

\* C6 as stated (SpecQA): an answer of the keyword fallback is returned unchanged.
C6_Original ==
    (AskDone /\ call.result.source = "fallback")
        => call.result.value = call.result.answer

\* C6 as amended (SpecQA): the final check applies to the API's answer and to
\* the fallback's alike: an answer that is empty, starts with "i don't know"
\* or "i'm sorry", or contains the refusal phrase is returned as the refusal
\* string, any other answer unchanged.
C6_CheckOnBothPaths ==
    (AskDone /\ call.result.source \in {"api", "fallback"})
        => call.result.value =
              IF Rewritten(call.result.answer) THEN REFUSAL ELSE call.result.answer

C6_Witness ==
    /\ AskDone
    /\ call.result.source = "fallback"
    /\ call.result.answer # REFUSAL
    /\ call.result.value = REFUSAL

\* a URL with a scheme and a network location
HasScheme(url) == ~urlparse(url).ValueError /\ urlparse(url).scheme # ""

HasHost(url) == ~urlparse(url).ValueError /\ urlparse(url).netloc # ""

\* C7 as stated (SpecURL): both validators return true exactly for the URLs
\* with a scheme and a host, whatever the scheme.
C7_Original ==
    UrlDone
        => /\ call.is_valid_url = (HasScheme(call.url) /\ HasHost(call.url))
           /\ call.validate_url = (HasScheme(call.url) /\ HasHost(call.url))

\* C7 as amended (SpecURL): _is_valid_url is true exactly for the URLs with a
\* scheme and a host; validate_url is true exactly for those among them whose
\* scheme is http or https; so the two differ exactly on the URLs with a host
\* and another scheme.
C7_Validators ==
    UrlDone
        => /\ call.is_valid_url = (HasScheme(call.url) /\ HasHost(call.url))
           /\ call.validate_url =
                (HasHost(call.url) /\ urlparse(call.url).scheme \in {"http", "https"})
           /\ (call.is_valid_url # call.validate_url)
                = (HasHost(call.url) /\ HasScheme(call.url)
                   /\ urlparse(call.url).scheme \notin {"http", "https"})

C7_Witness ==
    /\ UrlDone
    /\ urlparse(call.url).scheme = "ftp"
    /\ HasHost(call.url)
    /\ call.is_valid_url
    /\ ~call.validate_url

\* ^[A-Za-z0-9][A-Za-z0-9.-]*$
MatchesNamePattern(name) ==
    /\ Len(name) >= 1
    /\ Char(name, 1) \in chars_of(ASCII_UPPER \o ASCII_LOWER \o DIGITS)
    /\ \A i \in 1..Len(name) :
          Char(name, i) \in chars_of(ASCII_UPPER \o ASCII_LOWER \o DIGITS \o ".-")

\* C8 (SpecURL): the name _generate_collection_name returns matches
\* ^[A-Za-z0-9][A-Za-z0-9.-]*$, is 3 to 50 characters long, and is the name
\* returned for any other URL with the same netloc.
C8_CollectionName ==
    (UrlDone /\ ~call.collection_name.raised)
        => /\ MatchesNamePattern(call.collection_name.name)
           /\ Len(call.collection_name.name) <= 50
           /\ Len(call.collection_name.name) >= 3
           /\ \A other \in {"zz://" \o urlparse(call.url).netloc \o "/other?x=1",
                            "//" \o urlparse(call.url).netloc} :
                 _generate_collection_name(other) = call.collection_name

C8_Witness ==
    /\ UrlDone
    /\ ~call.collection_name.raised
    /\ Len(urlparse(call.url).netloc) > 50
    /\ Len(call.collection_name.name) = 50

\* C9 (SpecChunk): in the list process_and_chunk returns, every document's
\* total_chunks is the length of the list, the chunk_index values are
\* 0, 1, ... in list order, and all documents have the same source_url and
\* page_title.
C9_ChunkMetadata ==
    ChunkDone
        => \A i \in 1..Len(call.result) :
              /\ call.result[i].metadata.total_chunks = Len(call.result)
              /\ call.result[i].metadata.chunk_index = i - 1
              /\ call.result[i].metadata.source_url = call.result[1].metadata.source_url
              /\ call.result[i].metadata.page_title = call.result[1].metadata.page_title

C9_Witness ==
    /\ ChunkDone
    /\ Len(call.result) >= 2
    /\ "title" \notin DOMAIN call.content_data

\* C10 (Spec): a step of the session either appends turns to the history or,
\* by "Clear Chat History" alone, empties it; earlier turns stay as they
\* were, in order; indexing leaves the history as it was; every turn's role
\* is "user" or "assistant".
C10_HistoryAppendOnly ==
    [][/\ \/ /\ Len(chat_history') >= Len(chat_history)
             /\ SubSeq(chat_history', 1, Len(chat_history)) = chat_history
          \/ (last'.op = "clear" /\ chat_history' = <<>>)
       /\ (last'.op \in {"index", "clear_all_stores"} => chat_history' = chat_history)
       /\ \A i \in 1..Len(chat_history') : chat_history'[i].role \in {"user", "assistant"}]_vars

C10_Witness ==
    /\ Len(chat_history) >= 4
    /\ last.op = "index"
    /\ last.stage = "ok"

\* C11 (SpecQA): with a key configured, a request that ends in another status
\* than 200, in a transport error or in a body without the content does not
\* make ask_question raise; what is returned is what the same call returns
\* with no key configured, and when documents were found that is the
\* fallback's answer for the question and the joined documents after the
\* final check.
C11_ApiFailureFallsBack ==
    (AskDone /\ call.use_groq /\ call.api.kind \in {"status", "transport", "badjson"})
        => /\ ~call.result.raised
           /\ call.result.value =
                 ask_question(call.question, call.chat_history, FALSE, call.search, NoApi).value
           /\ (call.result.source = "fallback"
                 => /\ call.result.api_called
                    /\ call.result.fallback_called
                    /\ call.result.value =
                          post_check(_simple_answer(call.question,
                                                    join("\n\n", call.search.docs))))

C11_Witness ==
    /\ AskDone
    /\ call.use_groq
    /\ call.api.kind = "status"
    /\ call.result.source = "fallback"
    /\ call.result.value # REFUSAL

CleanDone == call.fn = "clean_text" /\ call.done

\* the text of a page as one trimmed line
Trimmed(text) == strip(collapse_ws(text))

\* C12 as stated (SpecClean): a trimmed line is kept exactly when it has 20
\* characters or more.
C12_Original ==
    CleanDone => (call.cleaned_lines = <<Trimmed(call.text)>> <=> Len(Trimmed(call.text)) >= 20)

\* C12 (SpecClean): a trimmed line is kept exactly when it has more than 20
\* characters. The collapse of whitespace leaves the text as one line, so a
\* text that collapses and trims to 20 characters or fewer is cleaned to the
\* empty string and crawl returns None for the page; a longer one is kept whole.
C12_KeepsLongerThan20 ==
    CleanDone
        => /\ Len(call.lines) = 1
           /\ call.cleaned_lines # <<>> <=> Len(Trimmed(call.text)) > 20
           /\ Len(Trimmed(call.text)) > 20 => call.cleaned_lines = <<Trimmed(call.text)>>
           /\ Len(Trimmed(call.text)) <= 20
                 => /\ call.result = ""
                    /\ ~call.crawled.raised
                    /\ call.crawled.value = None

C12_Witness ==
    /\ CleanDone
    /\ Len(Trimmed(call.text)) = 20
    /\ call.cleaned_lines = <<>>
    /\ call.crawled.value = None

FallbackDone == call.fn = "_simple_answer" /\ call.done

HasCue(question) == \E cue \in DEFINITIONAL_CUES : contains(lower(question), cue)

\* the first 3 words of the question that are no question word and longer than 2
MatchTerms(question) ==
    take(SelectSeq(split_ws(lower(question)),
                   LAMBDA w : w \notin QUESTION_WORDS /\ Len(w) > 2), 3)

\* the sentences of the context (split on ".") that contain one of the terms, trimmed
SentencesWith(terms, context) ==
    stripped(SelectSeq(split(context, "."),
                       LAMBDA s : \E k \in 1..Len(terms) : contains(lower(s), terms[k])))

\* C13 as stated (SpecFallback): for a question with a definitional cue the
\* fallback returns the refusal string, or one or two context sentences that
\* each contain one of the question's first 3 match terms, joined with ". "
\* and closed with a period.
C13_DefinitionalAnswer ==
    (FallbackDone /\ HasCue(call.question))
        => LET rel == SentencesWith(MatchTerms(call.question), call.context)
           IN  \/ call.result = REFUSAL
               \/ \E i \in 1..Len(rel) : call.result = rel[i] \o "."
               \/ \E i, j \in 1..Len(rel) :
                      i < j /\ call.result = rel[i] \o ". " \o rel[j] \o "."

\* the entries of the history the model is shown: the last 6
LastSix(h) == SubSeq(h, IF Len(h) > 6 THEN Len(h) - 5 ELSE 1, Len(h))

\* an entry counts as a turn of the user or of the assistant; one without a
\* role counts as the user's
IsTurn(entry) == "role" \in DOMAIN entry => entry.role \in {"user", "assistant"}

\* C14 (SpecQA): whenever ask_question builds the message list, the list is
\* the system message, then the user and assistant turns among the last 6
\* entries of the history in their order (6 at most), then one user message
\* holding the retrieved context and the question: 2 to 8 messages in all.
C14_MessageList ==
    (AskDone /\ call.result.messages # <<>>)
        => LET m == call.result.messages
               n == Len(m)
               turns == SelectSeq(LastSix(call.chat_history), IsTurn)
           IN  /\ 2 <= n /\ n <= 8
               /\ m[1] = [role |-> "system", content |-> SYSTEM_MESSAGE]
               /\ m[n] = [role |-> "user",
                          content |-> "Context from the website:\n"
                                      \o join("\n\n", call.search.docs)
                                      \o "\n\nQuestion: " \o call.question]
               /\ Len(turns) = n - 2
               /\ \A i \in 1..(n - 2) :
                     /\ m[i + 1].role \in {"user", "assistant"}
                     /\ "role" \in DOMAIN turns[i] => m[i + 1].role = turns[i].role
                     /\ "content" \in DOMAIN turns[i] => m[i + 1].content = turns[i].content

C14_Witness ==
    /\ AskDone
    /\ Len(call.chat_history) > 6
    /\ Len(call.result.messages) = 8
    /\ call.result.messages[2] = call.chat_history[Len(call.chat_history) - 5]

\* C15 (Spec): in every state url_indexed implies that the session's
\* vector_store is not None; a question is asked only in a state where
\* url_indexed holds and a store is there; and url_indexed, once true, stays
\* true through every later step, failed indexing attempts included.
C15_IndexedImpliesStore ==
    [][/\ url_indexed => vector_store # None
       /\ url_indexed' => vector_store' # None
       /\ url_indexed => url_indexed'
       /\ last'.op = "ask" => (url_indexed /\ vector_store # None)]_vars

C15_Witness ==
    /\ url_indexed
    /\ vector_store # None
    /\ last.op = "index"
    /\ last.stage = "no_content"

\* user, assistant, user, assistant, ...
Alternates(history) ==
    /\ Len(history) % 2 = 0
    /\ \A i \in 1..Len(history) :
          history[i].role = IF i % 2 = 1 THEN "user" ELSE "assistant"

\* C16 (Spec): a submitted question appends exactly two turns to the
\* history, the user's turn holding the question and then the assistant's
\* turn; before and after every step the history has even length and
\* alternates user, assistant, starting with the user.
C16_TwoTurnsPerQuestion ==
    [][/\ Alternates(chat_history)
       /\ Alternates(chat_history')
       /\ last'.op = "ask"
            => /\ Len(chat_history') = Len(chat_history) + 2
               /\ SubSeq(chat_history', 1, Len(chat_history)) = chat_history
               /\ chat_history'[Len(chat_history) + 1] =
                     [role |-> "user", content |-> last'.prompt]
               /\ chat_history'[Len(chat_history) + 2].role = "assistant"
               /\ chat_history'[Len(chat_history) + 2].content # ""]_vars

C16_Witness ==
    /\ last.op = "ask"
    /\ Len(chat_history) = 4
    /\ chat_history[3].content = last.prompt
    /\ chat_history[1].content # chat_history[3].content

\* C17 as stated (SpecURL): the collection name begins and ends with a
\* letter or digit, also when the sanitized domain was cut at 50 characters.
C17_StartsAndEndsAlnum ==
    (UrlDone /\ ~call.collection_name.raised)
        => LET name == call.collection_name.name
           IN  /\ Len(name) > 0
               /\ isalnum(Char(name, 1))
               /\ isalnum(Char(name, Len(name)))

====
